---- MODULE Spec2Model ----
(***************************************************************************)
(* The two GPU probe scripts of lib/devices/testdata/ollama-cuda:          *)
(*   test-nvml.py  (test_nvml and its __main__ block)                      *)
(*   test-cuda.py  (test_cuda and its __main__ block)                      *)
(* One behaviour of the model is one process run of one of the scripts.    *)
(* The native library is the environment: every call into it either        *)
(* returns a status code (and, for the count queries, a device count) or   *)
(* raises in the Python caller (ctypes raises OSError from CDLL and        *)
(* AttributeError when the loaded library lacks the entry point).          *)
(* Standard output is the sequence diag of printed lines; calls is the     *)
(* record of the native calls issued, as a mock library would keep it.     *)
(* The check mark / cross glyphs that start some printed lines are left    *)
(* out of the format strings; device counts reported by a driver are not   *)
(* negative.                                                               *)
(***************************************************************************)
EXTENDS Integers, Sequences, FiniteSets, TLC

VARIABLES script, pc, idx, lib, count, success, diag, calls, exitCode

vars == <<script, pc, idx, lib, count, success, diag, calls, exitCode>>

\* ---------------------------------------------------------------- bounds

\* Largest device count the modelled driver reports.
MaxCount == 2

\* Status codes the modelled native calls return: 0 (success), codes of the
\* NVML error-name table (1, 9, 255) and codes absent from it (4, 100).
Codes == {0, 1, 4, 9, 100, 255}

\* ---------------------------------------------------------------- values

None == "None"

\* One printed line: the f-string, the text and the number put into it.
Line(fmt, s, n) == [fmt |-> fmt, s |-> s, n |-> n]

\* One native call: entry point (or CDLL), the library it was made on (for
\* CDLL, the path tried), whether it raised, its status and its out value.
Call(fn, on, raised, ret, val) ==
    [fn |-> fn, lib |-> on, raised |-> raised, ret |-> ret, val |-> val]

\* test_nvml's candidate list, in order.
lib_paths ==
    << "libnvidia-ml.so.1",
       "libnvidia-ml.so",
       "/usr/lib/x86_64-linux-gnu/libnvidia-ml.so.1" >>

\* The device nodes the NVML script reports on, in order.
dev_nodes == << "/dev/nvidia0", "/dev/nvidiactl", "/dev/nvidia-uvm" >>

\* test_cuda's only candidate.
libcuda == "libcuda.so"

\* test_nvml's table of error names.
error_names ==
    [c \in {1, 2, 3, 9, 12, 255} |->
        CASE c = 1 -> "NVML_ERROR_UNINITIALIZED"
          [] c = 2 -> "NVML_ERROR_INVALID_ARGUMENT"
          [] c = 3 -> "NVML_ERROR_NOT_SUPPORTED"
          [] c = 9 -> "NVML_ERROR_DRIVER_NOT_LOADED"
          [] c = 12 -> "NVML_ERROR_LIB_RM_VERSION_MISMATCH"
          [] c = 255 -> "NVML_ERROR_UNKNOWN"]

ErrorNameAlwaysUnknown(ret) == "UNKNOWN"

\* error_names.get(ret, 'UNKNOWN')
ErrorNameGet(ret) ==
    IF ret \in DOMAIN error_names THEN error_names[ret] ELSE "UNKNOWN"

HandleEvenOnFailure(ok, path) == path

\* The handle bound by `nvml = ctypes.CDLL(path)`: the assignment happens
\* only when CDLL did not raise.
Handle(ok, path) == IF ok THEN path ELSE None

StopAfterFailedLoad(i) == "loaded"

\* The `except OSError` branch of the candidate loop ends the iteration: the
\* loop goes on to the next candidate, and is over after the last one.
AfterFailedLoad(i) == IF i = Len(lib_paths) THEN "loaded" ELSE "load"

NvmlReturnValueNonNegative(n) == IF n >= 0 THEN "True" ELSE "False"

\* return count.value > 0
NvmlReturnValue(n) == IF n > 0 THEN "True" ELSE "False"

ExitCodeAlwaysZero(s) == 0

\* exit(0 if success else 1)
ExitCode(s) == IF s = "True" THEN 0 ELSE 1

\* ------------------------------------------------------------------ init

Init ==
    /\ script \in {"nvml", "cuda"}
    /\ pc = "main"
    /\ idx = 1
    /\ lib = None
    /\ count = 0
    /\ success = None
    /\ diag = <<>>
    /\ calls = <<>>
    /\ exitCode = <<>>

\* ------------------------------------------------------------- test-nvml

\* __main__: the banner and the LD_LIBRARY_PATH line.
NvmlMainStart ==
    /\ script = "nvml" /\ pc = "main"
    /\ \E ld \in {"not set", "/usr/lib"} :
         diag' = diag \o << Line("=== NVML GPU Detection Test ===", "", 0),
                            Line("LD_LIBRARY_PATH: {}", ld, 0),
                            Line("", "", 0),
                            Line("Device nodes:", "", 0) >>
    /\ pc' = "devnodes"
    /\ idx' = 1
    /\ UNCHANGED <<script, lib, count, success, calls, exitCode>>

\* __main__: one iteration of the device-node loop.
NvmlCheckDeviceNode ==
    /\ script = "nvml" /\ pc = "devnodes" /\ idx <= Len(dev_nodes)
    /\ \E exists \in BOOLEAN :
         diag' = Append(diag, Line(IF exists THEN "  {dev}: exists"
                                             ELSE "  {dev}: MISSING",
                                   dev_nodes[idx], 0))
    /\ idx' = idx + 1
    /\ UNCHANGED <<script, pc, lib, count, success, calls, exitCode>>

\* __main__: the loop is over; test_nvml() is entered.
NvmlEnterProbe ==
    /\ script = "nvml" /\ pc = "devnodes" /\ idx > Len(dev_nodes)
    /\ diag' = Append(diag, Line("", "", 0))
    /\ pc' = "load"
    /\ idx' = 1
    /\ lib' = None
    /\ UNCHANGED <<script, count, success, calls, exitCode>>

\* test_nvml: one iteration of the candidate loop.
NvmlLoad ==
    /\ script = "nvml" /\ pc = "load" /\ idx <= Len(lib_paths)
    /\ \E ok \in BOOLEAN :
         /\ calls' = Append(calls, Call("CDLL", lib_paths[idx], ~ok, 0, 0))
         /\ lib' = Handle(ok, lib_paths[idx])
         /\ IF ok
            THEN /\ diag' = Append(diag, Line("Loaded NVML from: {path}",
                                               lib_paths[idx], 0))
                 /\ pc' = "loaded"
                 /\ idx' = idx
            ELSE /\ diag' = Append(diag, Line("Failed to load {path}: {e}",
                                               lib_paths[idx], 0))
                 /\ pc' = AfterFailedLoad(idx)
                 /\ idx' = idx + 1
    /\ UNCHANGED <<script, count, success, exitCode>>

\* test_nvml: `if nvml is None`.
NvmlCheckLoaded ==
    /\ script = "nvml" /\ pc = "loaded"
    /\ IF lib = None
       THEN /\ diag' = Append(diag, Line("ERROR: Could not load NVML library",
                                          "", 0))
            /\ success' = "False"
            /\ pc' = "returned"
       ELSE /\ pc' = "init"
            /\ UNCHANGED <<diag, success>>
    /\ UNCHANGED <<script, idx, lib, count, calls, exitCode>>

\* test_nvml: the try block around nvmlInit_v2.
NvmlInit ==
    /\ script = "nvml" /\ pc = "init"
    /\ \E raised \in BOOLEAN, ret \in Codes :
         /\ raised => ret = 0
         /\ calls' = Append(calls, Call("nvmlInit_v2", lib, raised, ret, 0))
         /\ IF raised
            THEN /\ diag' = Append(diag, Line("nvmlInit_v2 exception: {e}",
                                               "", 0))
                 /\ success' = "False"
                 /\ pc' = "returned"
            ELSE IF ret # 0
            THEN /\ diag' = diag \o
                       << Line("nvmlInit_v2 failed with code: {ret}", "", ret),
                          Line("   Error name: {}", ErrorNameGet(ret), 0) >>
                 /\ success' = "False"
                 /\ pc' = "returned"
            ELSE /\ diag' = Append(diag, Line("nvmlInit_v2 succeeded", "", 0))
                 /\ pc' = "count"
                 /\ UNCHANGED success
    /\ UNCHANGED <<count>>
    /\ UNCHANGED <<script, idx, lib, exitCode>>

\* test_nvml: the try block around nvmlDeviceGetCount_v2.
NvmlDeviceGetCount ==
    /\ script = "nvml" /\ pc = "count"
    /\ \E raised \in BOOLEAN, ret \in Codes, n \in 0..MaxCount :
         /\ raised => (ret = 0 /\ n = 0)
         /\ calls' = Append(calls,
                            Call("nvmlDeviceGetCount_v2", lib, raised, ret, n))
         /\ count' = n
         /\ IF raised
            THEN /\ diag' = Append(diag,
                                   Line("nvmlDeviceGetCount exception: {e}",
                                        "", 0))
                 /\ success' = "False"
                 /\ pc' = "returned"
            ELSE IF ret # 0
            THEN /\ diag' = Append(diag,
                              Line("nvmlDeviceGetCount failed with code: {ret}",
                                   "", ret))
                 /\ success' = "False"
                 /\ pc' = "returned"
            ELSE /\ diag' = Append(diag, Line("Found {count} GPU(s)", "", n))
                 /\ pc' = "shutdown"
                 /\ UNCHANGED success
    /\ UNCHANGED <<script, idx, lib, exitCode>>

\* test_nvml: nvmlShutdown(), outside any try, and the return.
NvmlShutdown ==
    /\ script = "nvml" /\ pc = "shutdown"
    /\ \E raised \in BOOLEAN, ret \in Codes :
         /\ raised => ret = 0
         /\ calls' = Append(calls, Call("nvmlShutdown", lib, raised, ret, 0))
         /\ IF raised
            THEN /\ pc' = "raised"
                 /\ UNCHANGED success
            ELSE /\ success' = NvmlReturnValue(count)
                 /\ pc' = "returned"
    /\ UNCHANGED <<diag, count>>
    /\ UNCHANGED <<script, idx, lib, exitCode>>

\* __main__: the verdict line and exit().
NvmlMainFinish ==
    /\ script = "nvml" /\ pc = "returned"
    /\ diag' = diag \o
          << Line("", "", 0),
             Line("Result: {}",
                  IF success = "True" THEN "GPU DETECTED" ELSE "NO GPU FOUND",
                  0) >>
    /\ exitCode' = << ExitCode(success) >>
    /\ pc' = "exited"
    /\ UNCHANGED <<script, idx, lib, count, success, calls>>

\* ------------------------------------------------------------- test-cuda

CudaInitNeverFailed(ret) == FALSE

\* `if ret != 0` after cuInit.
CudaInitFailed(ret) == ret # 0

ZeroDevicesIfNegative(n) == n < 0

\* `if count.value == 0`.
ZeroDevices(n) == n = 0

NameAlwaysPrinted(ret) == TRUE

\* `if ret == 0` after cuDeviceGetName.
NameOk(ret) == ret = 0

\* Device memory sizes the modelled driver reports, in MiB.
MemSizesMiB == {1536, 8192}

\* total_mem.value / (1024**3) shown with one decimal: tenths of a GB.
TenthsOfGB(mib) == (mib * 10 + 512) \div 1024

\* __main__ calls test_cuda(), which prints its banner.
CudaStart ==
    /\ script = "cuda" /\ pc = "main"
    /\ \E ld \in {"not set", "/usr/lib"} :
         diag' = diag \o << Line("=== CUDA Driver Test ===", "", 0),
                            Line("LD_LIBRARY_PATH: {}", ld, 0) >>
    /\ pc' = "load"
    /\ UNCHANGED <<script, idx, lib, count, success, calls, exitCode>>

\* test_cuda: the try block around CDLL("libcuda.so").
CudaLoad ==
    /\ script = "cuda" /\ pc = "load"
    /\ \E ok \in BOOLEAN :
         /\ calls' = Append(calls, Call("CDLL", libcuda, ~ok, 0, 0))
         /\ IF ok
            THEN /\ lib' = libcuda
                 /\ diag' = Append(diag, Line("Loaded libcuda.so", "", 0))
                 /\ pc' = "init"
                 /\ UNCHANGED success
            ELSE /\ diag' = Append(diag,
                                   Line("Failed to load libcuda.so: {e}", "", 0))
                 /\ success' = "False"
                 /\ pc' = "returned"
                 /\ UNCHANGED lib
    /\ UNCHANGED <<script, idx, count, exitCode>>

\* test_cuda: cuInit(0), outside any try.
CudaInit ==
    /\ script = "cuda" /\ pc = "init"
    /\ \E raised \in BOOLEAN, ret \in Codes :
         /\ raised => ret = 0
         /\ calls' = Append(calls, Call("cuInit", lib, raised, ret, 0))
         /\ IF raised
            THEN /\ pc' = "raised"
                 /\ UNCHANGED <<diag, success>>
            ELSE IF CudaInitFailed(ret)
            THEN /\ diag' = Append(diag,
                                   Line("cuInit failed with code: {ret}", "", ret))
                 /\ success' = "False"
                 /\ pc' = "returned"
            ELSE /\ diag' = Append(diag, Line("cuInit succeeded", "", 0))
                 /\ pc' = "count"
                 /\ UNCHANGED success
    /\ UNCHANGED <<count>>
    /\ UNCHANGED <<script, idx, lib, exitCode>>

\* test_cuda: cuDeviceGetCount and the zero-devices return.
CudaDeviceGetCount ==
    /\ script = "cuda" /\ pc = "count"
    /\ \E raised \in BOOLEAN, ret \in Codes, n \in 0..MaxCount :
         /\ raised => (ret = 0 /\ n = 0)
         /\ calls' = Append(calls, Call("cuDeviceGetCount", lib, raised, ret, n))
         /\ count' = n
         /\ IF raised
            THEN /\ pc' = "raised"
                 /\ UNCHANGED <<diag, success>>
            ELSE IF ret # 0
            THEN /\ diag' = Append(diag,
                              Line("cuDeviceGetCount failed with code: {ret}",
                                   "", ret))
                 /\ success' = "False"
                 /\ pc' = "returned"
            ELSE /\ diag' = Append(diag,
                                   Line("Found {count} CUDA device(s)", "", n))
                 /\ IF ZeroDevices(n)
                    THEN success' = "False" /\ pc' = "returned"
                    ELSE pc' = "device" /\ UNCHANGED success
    /\ UNCHANGED <<script, idx, lib, exitCode>>

\* test_cuda: cuDeviceGet(&device, 0).
CudaDeviceGet ==
    /\ script = "cuda" /\ pc = "device"
    /\ \E raised \in BOOLEAN, ret \in Codes :
         /\ raised => ret = 0
         /\ calls' = Append(calls, Call("cuDeviceGet", lib, raised, ret, 0))
         /\ IF raised
            THEN /\ pc' = "raised"
                 /\ UNCHANGED <<diag, success>>
            ELSE IF ret # 0
            THEN /\ diag' = Append(diag,
                                   Line("cuDeviceGet failed: {ret}", "", ret))
                 /\ success' = "False"
                 /\ pc' = "returned"
            ELSE /\ pc' = "name"
                 /\ UNCHANGED <<diag, success>>
    /\ UNCHANGED <<count>>
    /\ UNCHANGED <<script, idx, lib, exitCode>>

\* test_cuda: cuDeviceGetName into a 256-byte buffer; the name is decoded
\* and printed only on status 0, and decode() raises on bytes that are not
\* UTF-8.
CudaDeviceGetName ==
    /\ script = "cuda" /\ pc = "name"
    /\ \E raised \in BOOLEAN, ret \in Codes, decodes \in BOOLEAN :
         /\ raised => (ret = 0 /\ decodes)
         /\ (~raised /\ ret # 0) => decodes
         /\ calls' = Append(calls, Call("cuDeviceGetName", lib, raised, ret, 0))
         /\ IF raised
            THEN /\ pc' = "raised"
                 /\ UNCHANGED diag
            ELSE IF NameOk(ret)
            THEN IF decodes
                 THEN /\ diag' = Append(diag,
                                        Line("Device 0: {name}", "GPU-0", 0))
                      /\ pc' = "mem"
                 ELSE /\ pc' = "raised"
                      /\ UNCHANGED diag
            ELSE /\ pc' = "mem"
                 /\ UNCHANGED diag
    /\ UNCHANGED <<count, success>>
    /\ UNCHANGED <<script, idx, lib, exitCode>>

\* test_cuda: cuDeviceTotalMem_v2 and `return True`.
CudaDeviceTotalMem ==
    /\ script = "cuda" /\ pc = "mem"
    /\ \E raised \in BOOLEAN, ret \in Codes, mib \in MemSizesMiB :
         /\ raised => ret = 0
         /\ (raised \/ ret # 0) => mib = 1536
         /\ calls' = Append(calls,
                            Call("cuDeviceTotalMem_v2", lib, raised, ret, mib))
         /\ IF raised
            THEN /\ pc' = "raised"
                 /\ UNCHANGED <<diag, success>>
            ELSE /\ diag' = IF ret = 0
                            THEN Append(diag,
                                        Line("Total memory: {:.1f} GB", "",
                                             TenthsOfGB(mib)))
                            ELSE diag
                 /\ success' = "True"
                 /\ pc' = "returned"
    /\ UNCHANGED <<count>>
    /\ UNCHANGED <<script, idx, lib, exitCode>>

\* __main__: the verdict line and sys.exit().
CudaMainFinish ==
    /\ script = "cuda" /\ pc = "returned"
    /\ diag' = diag \o
          << Line("", "", 0),
             Line("Result: {}",
                  IF success = "True" THEN "CUDA WORKS" ELSE "CUDA FAILED",
                  0) >>
    /\ exitCode' = << ExitCode(success) >>
    /\ pc' = "exited"
    /\ UNCHANGED <<script, idx, lib, count, success, calls>>

\* --------------------------------------------------------- specification

Next ==
    \/ NvmlMainStart
    \/ NvmlCheckDeviceNode
    \/ NvmlEnterProbe
    \/ NvmlLoad
    \/ NvmlCheckLoaded
    \/ NvmlInit
    \/ NvmlDeviceGetCount
    \/ NvmlShutdown
    \/ NvmlMainFinish
    \/ CudaStart
    \/ CudaLoad
    \/ CudaInit
    \/ CudaDeviceGetCount
    \/ CudaDeviceGet
    \/ CudaDeviceGetName
    \/ CudaDeviceTotalMem
    \/ CudaMainFinish

Spec == Init /\ [][Next]_vars

\* ---------------------------------------------------------------- claims

\* The positions of the calls to entry point fn in the call record.
CallsTo(fn) == {i \in 1..Len(calls) : calls[i].fn = fn}

\* Entry point fn was called and returned status c.
ReturnedStatus(fn, c) ==
    \E i \in CallsTo(fn) : ~calls[i].raised /\ calls[i].ret = c

\* The positions of the printed lines made from the f-string fmt.
Printed(fmt) == {k \in 1..Len(diag) : diag[k].fmt = fmt}

\* The probe function has returned to __main__.
ProbeReturned == pc \in {"returned", "exited"}

\* Some candidate loaded.
SomeLoadSucceeded == \E i \in CallsTo("CDLL") : ~calls[i].raised

\* Every candidate of the running script was tried and failed.
AllLoadsFailed ==
    /\ Cardinality(CallsTo("CDLL")) =
          (IF script = "nvml" THEN Len(lib_paths) ELSE 1)
    /\ \A i \in CallsTo("CDLL") : calls[i].raised

\* The entry points of the two libraries, by step.
InitFns == {"nvmlInit_v2", "cuInit"}
CountFns == {"nvmlDeviceGetCount_v2", "cuDeviceGetCount"}
EnrichFns == {"cuDeviceGet", "cuDeviceGetName", "cuDeviceTotalMem_v2"}

InitReturnedZero == \E f \in InitFns : ReturnedStatus(f, 0)

\* The count query returned status 0 and reported n devices.
CountReturnedZeroWith(n) ==
    \E f \in CountFns : \E i \in CallsTo(f) :
        ~calls[i].raised /\ calls[i].ret = 0 /\ calls[i].val = n

CountReturnedZeroPositive ==
    \E n \in 1..(MaxCount + 1) : CountReturnedZeroWith(n)

CountReturnedError ==
    \E f \in CountFns : \E i \in CallsTo(f) :
        ~calls[i].raised /\ calls[i].ret # 0

\* C1: a run of test_nvml that returns, returns success exactly when some
\* candidate loaded, nvmlInit_v2 returned 0, nvmlDeviceGetCount_v2 returned
\* status 0 and the count it reported is greater than 0; otherwise failure.
C1_NvmlSuccessIff ==
    (script = "nvml" /\ ProbeReturned) =>
        /\ success \in {"True", "False"}
        /\ success = "True" <=>
              /\ SomeLoadSucceeded
              /\ ReturnedStatus("nvmlInit_v2", 0)
              /\ CountReturnedZeroPositive

C1_Witness ==
    /\ script = "nvml" /\ pc = "exited" /\ success = "True"
    /\ CountReturnedZeroWith(2)
    /\ ~calls[1].raised

\* C2: when every candidate load failed, the probe returns failure and the
\* call record holds nothing but the load attempts: no init, count,
\* enrichment or shutdown call is made.
C2_NoCallsAfterAllLoadsFail ==
    AllLoadsFailed =>
        /\ \A i \in 1..Len(calls) : calls[i].fn = "CDLL"
        /\ pc \in {"loaded", "returned", "exited"}
        /\ ProbeReturned => success = "False"

C2_Witness ==
    /\ script = "nvml" /\ AllLoadsFailed /\ pc = "exited"
    /\ success = "False" /\ Len(calls) = 3

\* The name the error-name table gives code c, 'UNKNOWN' for a code it lacks.
MappedName(c) ==
    CASE c = 1 -> "NVML_ERROR_UNINITIALIZED"
      [] c = 2 -> "NVML_ERROR_INVALID_ARGUMENT"
      [] c = 3 -> "NVML_ERROR_NOT_SUPPORTED"
      [] c = 9 -> "NVML_ERROR_DRIVER_NOT_LOADED"
      [] c = 12 -> "NVML_ERROR_LIB_RM_VERSION_MISMATCH"
      [] c = 255 -> "NVML_ERROR_UNKNOWN"
      [] OTHER -> "UNKNOWN"

\* The name of code c was printed.
NamePrinted(c) == \E k \in 1..Len(diag) : diag[k].s = MappedName(c)

C4_ShutdownOnceAfterInit ==
    (script = "nvml" /\ ProbeReturned /\ ReturnedStatus("nvmlInit_v2", 0)) =>
        Cardinality(CallsTo("nvmlShutdown")) = 1

\* The lines test_cuda has printed when it returns after a count query that
\* found devices: banner, LD_LIBRARY_PATH, loaded, init, found, and one line
\* for each enrichment value it obtained.
CudaLinesAfterEnrichment ==
    5 + (IF ReturnedStatus("cuDeviceGetName", 0) THEN 1 ELSE 0)
      + (IF ReturnedStatus("cuDeviceTotalMem_v2", 0) THEN 1 ELSE 0)

C6_NoUncaughtException == pc # "raised"

\* C7: a count query that returns status 0 and count 0 makes the probe fail
\* with the 'Found 0' line and no count-failed line printed; a count query
\* that returns a non-zero status makes it fail with the count-failed line
\* and no 'Found' line printed.
FoundFmts == {"Found {count} GPU(s)", "Found {count} CUDA device(s)"}
CountFailedFmts == {"nvmlDeviceGetCount failed with code: {ret}",
                    "cuDeviceGetCount failed with code: {ret}"}

FoundLines == UNION {Printed(f) : f \in FoundFmts}
CountFailedLines == UNION {Printed(f) : f \in CountFailedFmts}

FailedToLoad == "Failed to load {path}: {e}"

C8_CandidatesInOrderFirstLoadedUsed ==
    script = "nvml" =>
        /\ \A i \in CallsTo("CDLL") :
              /\ i <= Len(lib_paths)
              /\ calls[i].lib = lib_paths[i]
              /\ \A j \in 1..(i - 1) : calls[j].fn = "CDLL" /\ calls[j].raised
              /\ calls[i].raised =>
                    Cardinality({k \in Printed(FailedToLoad) :
                                    diag[k].s = calls[i].lib}) = 1
        /\ Cardinality(Printed(FailedToLoad)) =
              Cardinality({i \in CallsTo("CDLL") : calls[i].raised})
        /\ \A i \in 1..Len(calls) :
              calls[i].fn # "CDLL" =>
                 \E j \in CallsTo("CDLL") :
                    j < i /\ ~calls[j].raised /\ calls[i].lib = calls[j].lib
        /\ pc \notin {"main", "devnodes", "load"} =>
              \/ SomeLoadSucceeded
              \/ Cardinality(CallsTo("CDLL")) = Len(lib_paths)
        /\ (lib # None) <=> SomeLoadSucceeded

C8_Witness ==
    /\ script = "nvml" /\ pc = "exited" /\ Len(calls) >= 4
    /\ calls[1].fn = "CDLL" /\ calls[1].raised
    /\ calls[2].fn = "CDLL" /\ ~calls[2].raised
    /\ calls[3].fn = "nvmlInit_v2" /\ calls[3].lib = lib_paths[2]
    /\ Cardinality(Printed(FailedToLoad)) = 1

\* C9: a run that exits does so with code 0 and the success verdict exactly
\* when the probe function returned success, with code 1 and the failure
\* verdict exactly when it returned failure; the NVML script prints its
\* three device-node lines before the probe makes its first call, and the
\* probe runs and decides its result from the native calls alone, whichever
\* nodes are missing.
DeviceNodeLines == Printed("  {dev}: exists") \cup Printed("  {dev}: MISSING")

Verdict == diag[Len(diag)]

C9_ExitCodeMirrorsResult ==
    /\ pc = "exited" =>
          /\ success \in {"True", "False"}
          /\ Verdict.fmt = "Result: {}"
          /\ success = "True" =>
                /\ exitCode = <<0>>
                /\ Verdict.s = (IF script = "cuda" THEN "CUDA WORKS"
                                                   ELSE "GPU DETECTED")
          /\ success = "False" =>
                /\ exitCode = <<1>>
                /\ Verdict.s = (IF script = "cuda" THEN "CUDA FAILED"
                                                   ELSE "NO GPU FOUND")
    /\ pc # "exited" => exitCode = <<>>
    /\ (script = "nvml" /\ calls # <<>>) =>
          /\ Cardinality(DeviceNodeLines) = Len(dev_nodes)
          /\ \A k \in DeviceNodeLines : k <= 4 + Len(dev_nodes)
    /\ (script = "nvml" /\ pc \in {"exited", "raised"}) =>
          /\ calls # <<>>
          /\ success = "True" <=>
                /\ pc = "exited"
                /\ ReturnedStatus("nvmlInit_v2", 0)
                /\ CountReturnedZeroPositive

C9_Witness ==
    /\ script = "nvml" /\ pc = "exited"
    /\ success = "True" /\ exitCode = <<0>>
    /\ Cardinality(Printed("  {dev}: MISSING")) = 2

\* C10: the calls of a run follow the order load, initialize, device count,
\* then enrichment (CUDA) or shutdown (NVML); each candidate is loaded at
\* most once and each entry point is called at most once; initialization
\* is called only on a library that loaded, the count query only after
\* initialization returned 0, the CUDA enrichment calls only after the
\* count query returned 0 with a count greater than 0, and nvmlShutdown only
\* after nvmlInit_v2 returned 0 and the count query returned 0.
Step(fn) ==
    CASE fn = "CDLL" -> 0
      [] fn \in InitFns -> 1
      [] fn \in CountFns -> 2
      [] fn = "cuDeviceGet" -> 3
      [] fn = "cuDeviceGetName" -> 4
      [] fn = "cuDeviceTotalMem_v2" -> 5
      [] fn = "nvmlShutdown" -> 3

C10_CallOrder ==
    /\ \A i, j \in 1..Len(calls) :
          i < j =>
             /\ Step(calls[i].fn) <= Step(calls[j].fn)
             /\ Step(calls[i].fn) = Step(calls[j].fn) =>
                   /\ calls[i].fn = "CDLL"
                   /\ calls[i].lib # calls[j].lib
             /\ calls[j].fn # "CDLL" => ~calls[i].raised \/ calls[i].fn = "CDLL"
    /\ Cardinality({i \in CallsTo("CDLL") : ~calls[i].raised}) <= 1
    /\ \A i \in 1..Len(calls) :
          /\ calls[i].fn \in InitFns => SomeLoadSucceeded
          /\ calls[i].fn \in CountFns => InitReturnedZero
          /\ calls[i].fn \in EnrichFns =>
                InitReturnedZero /\ CountReturnedZeroPositive
          /\ calls[i].fn = "cuDeviceGetName" => ReturnedStatus("cuDeviceGet", 0)
          /\ calls[i].fn = "cuDeviceTotalMem_v2" =>
                ReturnedStatus("cuDeviceGet", 0)
          /\ calls[i].fn = "nvmlShutdown" =>
                /\ ReturnedStatus("nvmlInit_v2", 0)
                /\ ReturnedStatus("nvmlDeviceGetCount_v2", 0)
    /\ script = "nvml" => \A i \in 1..Len(calls) : calls[i].fn \notin EnrichFns
    /\ script = "cuda" => CallsTo("nvmlShutdown") = {}

C10_Witness ==
    /\ script = "cuda" /\ pc = "exited" /\ Len(calls) = 6
    /\ calls[6].fn = "cuDeviceTotalMem_v2"
    /\ ReturnedStatus("cuDeviceGetName", 1)
====
